---------------------------- MODULE Spec2Model ----------------------------
(***************************************************************************)
(* Machining cost calculator: the three Streamlit scripts app.py, app1.py  *)
(* and app2.py.  A Streamlit script is re-executed from top to bottom on   *)
(* every widget change and every button press; the only value that         *)
(* survives a rerun is st.session_state.run_calculation of app2.py.        *)
(*                                                                         *)
(* Python floats are modelled as binary floating-point numbers of          *)
(* Precision significant bits (53 in the scripts), every operation rounded *)
(* to nearest, ties to even, with the IEEE specials the scripts can        *)
(* produce (float("inf") and what arithmetic makes of it) and a marker for *)
(* a raised ZeroDivisionError.  The exponent is unbounded: overflow and    *)
(* underflow are not modelled.                                             *)
(***************************************************************************)
EXTENDS Integers, FiniteSets, Sequences, TLC

----------------------------------------------------------------------------
(* Floating-point numbers *)

\* Significant bits of a float.
Precision == 14

Abs(x) == IF x < 0 THEN -x ELSE x

\* The number of bits of a natural number.
RECURSIVE BitLen(_)
BitLen(a) == IF a = 0 THEN 0 ELSE 1 + BitLen(a \div 2)

\* The float s * a * 2^e for a < 2^Precision, written with an odd mantissa
\* (zero as 0 * 2^0) so that equal numbers are equal records.
RECURSIVE Canon(_, _, _)
Canon(s, a, e) ==
    IF a = 0 THEN [k |-> "fin", m |-> 0, e |-> 0]
    ELSE IF a % 2 = 0 THEN Canon(s, a \div 2, e + 1)
    ELSE [k |-> "fin", m |-> s * a, e |-> e]

\* s * (a + t) * 2^e rounded to Precision bits, to nearest, ties to even;
\* t is 0, or, when sticky, some fraction strictly between 0 and 1.
Round(s, a, e, sticky) ==
    LET len == BitLen(a)
        sh  == len - Precision
    IN  IF sh <= 0 THEN Canon(s, a, e)
        ELSE LET q    == a \div (2 ^ sh)
                 r    == a % (2 ^ sh)
                 half == 2 ^ (sh - 1)
                 up   == r > half \/ (r = half /\ (sticky \/ q % 2 = 1))
             IN  Canon(s, IF up THEN q + 1 ELSE q, e + sh)

\* float(i)
FromInt(i) == Round(IF i < 0 THEN -1 ELSE 1, Abs(i), 0, FALSE)

PosInf == [k |-> "inf", m |-> 1, e |-> 0]
NegInf == [k |-> "inf", m |-> -1, e |-> 0]
NaN    == [k |-> "nan", m |-> 0, e |-> 0]
\* The value of an expression whose evaluation raised ZeroDivisionError.
Raised == [k |-> "err", m |-> 0, e |-> 0]
\* A Python name that was never assigned in this run.
Unset  == [k |-> "unset", m |-> 0, e |-> 0]

Sign(x) == IF x.m > 0 THEN 1 ELSE IF x.m < 0 THEN -1 ELSE 0

\* The position of the leading bit of a finite non-zero float.
Top(x) == BitLen(Abs(x.m)) + x.e

\* Python's x > 0 on floats (False for nan).
Gt0(x) == x.k \in {"fin", "inf"} /\ x.m > 0

\* x * y
Mul(x, y) ==
    IF x.k = "err" \/ y.k = "err" THEN Raised
    ELSE IF x.k = "nan" \/ y.k = "nan" THEN NaN
    ELSE IF x.k = "inf" \/ y.k = "inf"
         THEN IF Sign(x) * Sign(y) > 0 THEN PosInf
              ELSE IF Sign(x) * Sign(y) < 0 THEN NegInf
              ELSE NaN
    ELSE Round(IF Sign(x) * Sign(y) < 0 THEN -1 ELSE 1,
               Abs(x.m) * Abs(y.m), x.e + y.e, FALSE)

\* x + y for finite non-zero x and y, Top(x) >= Top(y).  A y below a quarter
\* of x's last place cannot move the result; below a half it can only when x
\* is a power of two and y has the other sign.
AddOrdered(x, y) ==
    LET gap == Top(x) - Top(y)
        e0  == IF x.e < y.e THEN x.e ELSE y.e
        sum == x.m * (2 ^ (x.e - e0)) + y.m * (2 ^ (y.e - e0))
    IN  IF gap >= Precision + 2 THEN x
        ELSE IF gap = Precision + 1 /\ (Sign(x) = Sign(y) \/ Abs(x.m) # 1) THEN x
        ELSE Round(IF sum < 0 THEN -1 ELSE 1, Abs(sum), e0, FALSE)

\* x + y
Add(x, y) ==
    IF x.k = "err" \/ y.k = "err" THEN Raised
    ELSE IF x.k = "nan" \/ y.k = "nan" THEN NaN
    ELSE IF x.k = "inf" /\ y.k = "inf"
         THEN IF x.m = y.m THEN x ELSE NaN
    ELSE IF x.k = "inf" THEN x
    ELSE IF y.k = "inf" THEN y
    ELSE IF x.m = 0 THEN y
    ELSE IF y.m = 0 THEN x
    ELSE IF Top(x) >= Top(y) THEN AddOrdered(x, y)
    ELSE AddOrdered(y, x)

\* x / y for finite x and finite non-zero y: the dividend is scaled to
\* 2 * Precision + 1 bits, so that the quotient has a bit to round on, and the
\* remainder says whether anything lies below it.
DivFinite(x, y) ==
    LET a == Abs(x.m)
        b == Abs(y.m)
        t == 2 * Precision + 1 - BitLen(a)
        n == a * (2 ^ t)
    IN  IF a = 0 THEN x
        ELSE Round(IF Sign(x) * Sign(y) < 0 THEN -1 ELSE 1,
                   n \div b, x.e - t - y.e, n % b # 0)

\* x / y: Python raises ZeroDivisionError on a zero divisor, whatever x is.
Div(x, y) ==
    IF x.k = "err" \/ y.k = "err" THEN Raised
    ELSE IF y.k = "fin" /\ y.m = 0 THEN Raised
    ELSE IF x.k = "nan" \/ y.k = "nan" THEN NaN
    ELSE IF y.k = "inf"
         THEN IF x.k = "inf" THEN NaN ELSE FromInt(0)
    ELSE IF x.k = "inf"
         THEN IF Sign(x) * Sign(y) > 0 THEN PosInf ELSE NegInf
    ELSE DivFinite(x, y)

\* x ** 2
Sq(x) == Mul(x, x)

\* math.pi: pi to the precision of a float (355/113 agrees with pi to more
\* bits than Precision).
PI == Div(FromInt(355), FromInt(113))

----------------------------------------------------------------------------
(* The formulas the three scripts share, statement by statement *)

\* Mutant: the diameter squared instead of the radius.
VolumeMm3_Diameter(D_raw, L_raw) == Mul(Mul(PI, Sq(D_raw)), L_raw)

\* volume_mm3 = math.pi * ((D_raw / 2) ** 2) * L_raw
VolumeMm3(D_raw, L_raw) == Mul(Mul(PI, Sq(Div(D_raw, FromInt(2)))), L_raw)

\* volume_cm3 = volume_mm3 / 1000
VolumeCm3(volume_mm3) == Div(volume_mm3, FromInt(1000))

\* Mutant: "- 1000" typed for "/ 1000".
WeightKg_Minus(volume_cm3, density) ==
    Add(Mul(volume_cm3, density), FromInt(-1000))

\* weight_kg = (volume_cm3 * density) / 1000
WeightKg(volume_cm3, density) == Div(Mul(volume_cm3, density), FromInt(1000))

\* material_cost = weight_kg * cost_per_kg
MaterialCost(weight_kg, cost_per_kg) == Mul(weight_kg, cost_per_kg)

\* spindle_speed = (1000 * cutting_speed) / (math.pi * D_final)
SpindleSpeed(cutting_speed, D_final) ==
    Div(Mul(FromInt(1000), cutting_speed), Mul(PI, D_final))

\* total_time_min = machining_time + chamfer_time
TotalTimeMin(machining_time, chamfer_time) == Add(machining_time, chamfer_time)

\* total_time_hr = total_time_min / 60
TotalTimeHr(total_time_min) == Div(total_time_min, FromInt(60))

\* machining_cost = total_time_hr * MHR
MachiningCost(total_time_hr, MHR) == Mul(total_time_hr, MHR)

\* total_cost = material_cost + machining_cost
TotalCost(material_cost, machining_cost) == Add(material_cost, machining_cost)

\* The three cost columns of the export row (the nine input columns are the
\* inputs themselves).
Row(i, material_cost, machining_cost, total_cost) ==
    [inp |-> i, material_cost |-> material_cost,
     machining_cost |-> machining_cost, total_cost |-> total_cost]

\* What a run leaves behind: the names the calculation block assigned, what
\* the page shows and the rows offered for download.  calc is "none" when the
\* block was not entered, "raised" when an exception ended the run inside it.
Result(calc, w, m, n, t, tt, mc, tc, shown, rows) ==
    [calc |-> calc, weight_kg |-> w, material_cost |-> m, spindle_speed |-> n,
     machining_time |-> t, total_time_min |-> tt, machining_cost |-> mc,
     total_cost |-> tc, shown |-> shown, rows |-> rows]

NoCalc(shown) ==
    Result("none", Unset, Unset, Unset, Unset, Unset, Unset, Unset, shown, {})

----------------------------------------------------------------------------
(* app.py: no button, no guard; every rerun calculates *)

\* machining_time = L_raw / (feed_rate * spindle_speed)
app_MachiningTime(L_raw, feed_rate, spindle_speed) ==
    Div(L_raw, Mul(feed_rate, spindle_speed))

appScript(i) ==
    LET volume_mm3     == VolumeMm3(i.D_raw, i.L_raw)
        volume_cm3     == VolumeCm3(volume_mm3)
        weight_kg      == WeightKg(volume_cm3, i.density)
        material_cost  == MaterialCost(weight_kg, i.cost_per_kg)
        spindle_speed  == SpindleSpeed(i.cutting_speed, i.D_final)
        machining_time == app_MachiningTime(i.L_raw, i.feed_rate, spindle_speed)
        total_time_min == TotalTimeMin(machining_time, i.chamfer_time)
        total_time_hr  == TotalTimeHr(total_time_min)
        machining_cost == MachiningCost(total_time_hr, i.MHR)
        total_cost     == TotalCost(material_cost, machining_cost)
    IN  IF spindle_speed.k = "err"
        THEN Result("raised", weight_kg, material_cost, Unset, Unset, Unset,
                    Unset, Unset, {"exception"}, {})
        ELSE IF machining_time.k = "err"
        THEN Result("raised", weight_kg, material_cost, spindle_speed, Unset,
                    Unset, Unset, Unset, {"exception"}, {})
        ELSE Result("done", weight_kg, material_cost, spindle_speed,
                    machining_time, total_time_min, machining_cost, total_cost,
                    {"results", "export"},
                    {Row(i, material_cost, machining_cost, total_cost)})

----------------------------------------------------------------------------
(* app1.py: calculates only in the run in which Calculate was pressed *)

\* machining_time = L_raw / (feed_rate * spindle_speed)
\*                  if spindle_speed > 0 and feed_rate > 0 else float("inf")
app1_MachiningTime(L_raw, feed_rate, spindle_speed) ==
    IF Gt0(spindle_speed) /\ Gt0(feed_rate)
    THEN Div(L_raw, Mul(feed_rate, spindle_speed))
    ELSE PosInf

app1Script(i, button) ==
    LET volume_mm3     == VolumeMm3(i.D_raw, i.L_raw)
        volume_cm3     == VolumeCm3(volume_mm3)
        weight_kg      == WeightKg(volume_cm3, i.density)
        material_cost  == MaterialCost(weight_kg, i.cost_per_kg)
        spindle_speed  == SpindleSpeed(i.cutting_speed, i.D_final)
        machining_time == app1_MachiningTime(i.L_raw, i.feed_rate, spindle_speed)
        total_time_min == TotalTimeMin(machining_time, i.chamfer_time)
        total_time_hr  == TotalTimeHr(total_time_min)
        machining_cost == MachiningCost(total_time_hr, i.MHR)
        total_cost     == TotalCost(material_cost, machining_cost)
    IN  IF ~button THEN NoCalc({"info"})
        ELSE IF spindle_speed.k = "err"
        THEN Result("raised", weight_kg, material_cost, Unset, Unset, Unset,
                    Unset, Unset, {"exception"}, {})
        ELSE Result("done", weight_kg, material_cost, spindle_speed,
                    machining_time, total_time_min, machining_cost, total_cost,
                    {"results", "export"},
                    {Row(i, material_cost, machining_cost, total_cost)})

----------------------------------------------------------------------------
(* app2.py: the calculation is gated by st.session_state.run_calculation *)

\* if spindle_speed > 0 and feed_rate > 0:
\*     machining_time = L_raw / (feed_rate * spindle_speed)
\* else:
\*     machining_time = 0.0
app2_MachiningTime(L_raw, feed_rate, spindle_speed) ==
    IF Gt0(spindle_speed) /\ Gt0(feed_rate)
    THEN Div(L_raw, Mul(feed_rate, spindle_speed))
    ELSE FromInt(0)

\* if 'run_calculation' not in st.session_state:
\*     st.session_state.run_calculation = False
app2_InitialFlag == FALSE

\* Mutant: the flag is not kept from one run to the next.
app2_AfterButton_NotKept(run_calculation, button) == button

\* if st.button("Calculate Cost", ...): st.session_state.run_calculation = True
app2_AfterButton(run_calculation, button) == button \/ run_calculation

\* if D_final > 0: ... else: ... st.session_state.run_calculation = False
app2_AfterGuard(run_calculation, D_final) == run_calculation /\ Gt0(D_final)

\* Mutant: the results and export block is not gated.
app2_Gate_Open(run_calculation) == TRUE

\* The second "if st.session_state.run_calculation:", around the machining
\* time, the totals, the results panel and the export.
app2_Gate(run_calculation) == run_calculation

\* One run of the script.  run_calculation is the session flag when the run
\* starts; flag is its value when the run ends.
app2Script(i, run_calculation, button) ==
    LET flag1          == app2_AfterButton(run_calculation, button)
        volume_mm3     == VolumeMm3(i.D_raw, i.L_raw)
        volume_cm3     == VolumeCm3(volume_mm3)
        weight_kg      == WeightKg(volume_cm3, i.density)
        material_cost  == MaterialCost(weight_kg, i.cost_per_kg)
        guard          == Gt0(i.D_final)
        flag2          == app2_AfterGuard(flag1, i.D_final)
        spindle_speed  == IF guard
                          THEN SpindleSpeed(i.cutting_speed, i.D_final)
                          ELSE FromInt(0)
        gate           == app2_Gate(flag2)
        machining_time == app2_MachiningTime(i.L_raw, i.feed_rate, spindle_speed)
        total_time_min == TotalTimeMin(machining_time, i.chamfer_time)
        total_time_hr  == TotalTimeHr(total_time_min)
        machining_cost == IF gate THEN MachiningCost(total_time_hr, i.MHR)
                          ELSE FromInt(0)
        total_cost     == IF gate THEN TotalCost(material_cost, machining_cost)
                          ELSE material_cost
        shown          == (IF guard THEN {} ELSE {"error"})
                          \cup (IF gate THEN {"results", "export"} ELSE {})
                          \cup (IF flag2 THEN {} ELSE {"info"})
    IN  IF ~flag1
        THEN [flag |-> FALSE, res |-> NoCalc({"info"})]
        ELSE [flag |-> flag2,
              res  |-> Result("done", weight_kg, material_cost, spindle_speed,
                              IF gate THEN machining_time ELSE Unset,
                              IF gate THEN total_time_min ELSE Unset,
                              machining_cost, total_cost, shown,
                              IF gate
                              THEN {Row(i, material_cost, machining_cost, total_cost)}
                              ELSE {})]

----------------------------------------------------------------------------
(* The inputs.  The widgets clamp each value to its slider range; the       *)
(* calculation blocks themselves accept any number, and the ranges below    *)
(* include the zero and negative values the guards are written for.         *)

MaxD_raw   == 3
MaxD_final == 2

D_rawValues         == {FromInt(d) : d \in 2..MaxD_raw}
L_rawValues         == {FromInt(0), FromInt(4)}
densityValues       == {FromInt(-1), FromInt(5)}
cost_per_kgValues   == {FromInt(0), FromInt(5)}
D_finalValues       == {FromInt(-1), FromInt(0)}
                       \cup {FromInt(d) : d \in 2..MaxD_final}
cutting_speedValues == {FromInt(0), FromInt(3)}
feed_rateValues     == {FromInt(0), Div(FromInt(1), FromInt(5))}
MHRValues           == {FromInt(0), FromInt(60)}
chamfer_timeValues  == {FromInt(0), FromInt(5)}

RawMaterialFields == {"D_raw", "L_raw", "density", "cost_per_kg"}
MachiningFields   == {"D_final", "cutting_speed", "feed_rate", "MHR", "chamfer_time"}

Values(f) ==
    CASE f = "D_raw"         -> D_rawValues
      [] f = "L_raw"         -> L_rawValues
      [] f = "density"       -> densityValues
      [] f = "cost_per_kg"   -> cost_per_kgValues
      [] f = "D_final"       -> D_finalValues
      [] f = "cutting_speed" -> cutting_speedValues
      [] f = "feed_rate"     -> feed_rateValues
      [] f = "MHR"           -> MHRValues
      [] f = "chamfer_time"  -> chamfer_timeValues

\* The values the widgets hold when a session starts (scaled-down stand-ins
\* for the sliders' initial values: every one positive and in range).
Defaults ==
    [D_raw |-> FromInt(2), L_raw |-> FromInt(4), density |-> FromInt(5),
     cost_per_kg |-> FromInt(5), D_final |-> FromInt(2),
     cutting_speed |-> FromInt(3),
     feed_rate |-> Div(FromInt(1), FromInt(5)),
     MHR |-> FromInt(60), chamfer_time |-> FromInt(5)]

----------------------------------------------------------------------------
(* The state: one input record, fed to each of the three scripts *)

VARIABLES
    inp,              \* the nine widget values
    button,           \* whether the last run was started by pressing Calculate
    run_calculation,  \* app2.py: st.session_state.run_calculation
    out,              \* what the last run of app.py left
    out1,             \* what the last run of app1.py left
    out2,             \* what the last run of app2.py left
    ref               \* history: an earlier calculation of app2.py, or NoRef

vars == <<inp, button, run_calculation, out, out1, out2, ref>>

NoRef == [calc |-> "none"]

\* Mutant: app2.py keeps the results of the last click and shows them again,
\* not recalculated, in the runs the flag alone starts.
Rerun_Cached(i, b) ==
    LET run2 == app2Script(i, run_calculation, b)
    IN  /\ inp' = i
        /\ button' = b
        /\ out' = appScript(i)
        /\ out1' = app1Script(i, b)
        /\ out2' = IF ~b /\ run_calculation /\ run2.flag THEN out2 ELSE run2.res
        /\ run_calculation' = run2.flag
        /\ UNCHANGED ref

\* Streamlit runs each script from top to bottom with the widget values i;
\* b is the value its button returns in this run.
Rerun(i, b) ==
    LET run2 == app2Script(i, run_calculation, b)
    IN  /\ inp' = i
        /\ button' = b
        /\ out' = appScript(i)
        /\ out1' = app1Script(i, b)
        /\ out2' = run2.res
        /\ run_calculation' = run2.flag
        /\ UNCHANGED ref

\* The first run of a fresh session.
Init ==
    /\ inp = Defaults
    /\ button = FALSE
    /\ out = appScript(inp)
    /\ out1 = app1Script(inp, FALSE)
    /\ out2 = app2Script(inp, app2_InitialFlag, FALSE).res
    /\ run_calculation = app2Script(inp, app2_InitialFlag, FALSE).flag
    /\ ref = NoRef

\* The user moves a raw-material widget: a rerun, no button pressed.
ChangeRawMaterial ==
    \E f \in RawMaterialFields : \E v \in Values(f) :
        /\ v # inp[f]
        /\ Rerun([inp EXCEPT ![f] = v], FALSE)

\* The user moves a machining widget: a rerun, no button pressed.
ChangeMachining ==
    \E f \in MachiningFields : \E v \in Values(f) :
        /\ v # inp[f]
        /\ Rerun([inp EXCEPT ![f] = v], FALSE)

\* The user presses Calculate: a rerun with the same widget values.
PressCalculate == Rerun(inp, TRUE)

Next == ChangeRawMaterial \/ ChangeMachining \/ PressCalculate

Spec == Init /\ [][Next]_vars

----------------------------------------------------------------------------
(* The same sessions with a history variable: at any moment the inputs and  *)
(* costs of the calculation app2.py has just performed may be kept in ref,  *)
(* so that a later calculation can be compared with any earlier one.        *)

Remember ==
    /\ out2.calc = "done"
    /\ ref' = [calc |-> "done", inp |-> inp, button |-> button,
               material_cost |-> out2.material_cost,
               machining_cost |-> out2.machining_cost,
               total_cost |-> out2.total_cost]
    /\ UNCHANGED <<inp, button, run_calculation, out, out1, out2>>

NextDet == ChangeMachining \/ PressCalculate \/ Remember

\* The sessions explored with the history variable keep the raw material of
\* the first run and vary the machining widgets, the button and the flag.
SpecDet == Init /\ [][NextDet]_vars

----------------------------------------------------------------------------
(* Properties *)

Zero == FromInt(0)

IsFinite(x) == x.k = "fin"

\* x >= 0 for a number (false of nan and of a name never assigned).
Ge0(x) == x.k \in {"fin", "inf"} /\ x.m >= 0

\* Python's x == y on floats: nan equals nothing, itself included; false of
\* a name never assigned.
PyEq(x, y) == x.k \in {"fin", "inf"} /\ y.k \in {"fin", "inf"} /\ x = y

\* The runs of the three scripts in the current state.
Outs == {out, out1, out2}

Entered(o)   == o.calc # "none"
Completed(o) == o.calc = "done"

SameCosts(a, b) ==
    /\ a.material_cost = b.material_cost
    /\ a.machining_cost = b.machining_cost
    /\ a.total_cost = b.total_cost

TotalIsSum(o) ==
    /\ Completed(o)
    /\ PyEq(o.total_cost, Add(o.material_cost, o.machining_cost))

\* C1 (as claimed): for every input record, degenerate ones included, a run of
\* app1.py or app2.py that enters the calculation block ends it with
\* total_cost == material_cost + machining_cost.
C1_TotalIsSum ==
    \A o \in {out1, out2} : Entered(o) => TotalIsSum(o)

ExpectedMaterial(i) ==
    MaterialCost(WeightKg(VolumeCm3(VolumeMm3(i.D_raw, i.L_raw)), i.density),
                 i.cost_per_kg)

\* C2 (as claimed): whenever D_final <= 0, a run that enters the calculation
\* block yields machining_cost == 0 and total_cost == material_cost, the
\* material cost being the one of the non-degenerate case.
C2_DegenerateDiameter ==
    \A o \in Outs :
        (Entered(o) /\ ~Gt0(inp.D_final)) =>
            /\ Completed(o)
            /\ PyEq(o.machining_cost, Zero)
            /\ PyEq(o.total_cost, o.material_cost)
            /\ PyEq(o.material_cost, ExpectedMaterial(inp))

\* C3 (as claimed): whenever D_final > 0 and feed_rate <= 0 or the computed
\* spindle speed <= 0, machining_time is 0, total_time_min is the chamfer time
\* and machining_cost is chamfer_time / 60 * MHR.
C3_ZeroMachiningTime ==
    \A o \in Outs :
        (/\ Entered(o)
         /\ Gt0(inp.D_final)
         /\ (~Gt0(inp.feed_rate) \/ ~Gt0(o.spindle_speed))) =>
            /\ Completed(o)
            /\ PyEq(o.machining_time, Zero)
            /\ PyEq(o.total_time_min, inp.chamfer_time)
            /\ PyEq(o.machining_cost,
                    Mul(Div(inp.chamfer_time, FromInt(60)), inp.MHR))

\* C4 (as claimed): the calculation of app.py and app1.py is total: no run
\* ends in a ZeroDivisionError, and every cost column of an export row is a
\* finite number.
C4_TotalAndFinite ==
    \A o \in {out, out1} :
        /\ o.calc # "raised"
        /\ \A r \in o.rows :
               /\ IsFinite(r.material_cost)
               /\ IsFinite(r.machining_cost)
               /\ IsFinite(r.total_cost)

\* C5 (as claimed): on one input record, any two of the three scripts that
\* complete a calculation produce the same material, machining and total cost.
C5_VariantsAgree ==
    \A a \in Outs : \A b \in Outs :
        (Completed(a) /\ Completed(b)) => SameCosts(a, b)

\* pi * D_raw^2 * L_raw * density / 4,000,000
ClosedFormWeight(i) ==
    Div(Mul(Mul(Mul(PI, Sq(i.D_raw)), i.L_raw), i.density), FromInt(4000000))

PositiveRawMaterial(i) == Gt0(i.D_raw) /\ Gt0(i.L_raw) /\ Gt0(i.density)

\* The Precision-bit mantissa and the exponent of a finite non-zero float.
NormM(x) == Abs(x.m) * (2 ^ (Precision - BitLen(Abs(x.m))))
NormE(x) == Top(x) - Precision

\* Finite floats a and b differ by at most u units in the last place of the
\* larger one.
WithinUlps(a, b, u) ==
    /\ a.k = "fin" /\ b.k = "fin"
    /\ IF a.m = 0 \/ b.m = 0 THEN a = b
       ELSE LET e0 == IF NormE(a) < NormE(b) THEN NormE(a) ELSE NormE(b)
                e1 == IF NormE(a) < NormE(b) THEN NormE(b) ELSE NormE(a)
            IN  /\ Sign(a) = Sign(b)
                /\ e1 - e0 <= 1
                /\ Abs(NormM(a) * (2 ^ (NormE(a) - e0))
                       - NormM(b) * (2 ^ (NormE(b) - e0)))
                       <= u * (2 ^ (e1 - e0))

\* C6 (as claimed): for positive D_raw, L_raw and density, the weight_kg every
\* script computes by its chained steps equals
\* pi * D_raw^2 * L_raw * density / 4,000,000, and material_cost equals that
\* weight times cost_per_kg.
C6_ClosedFormExact ==
    \A o \in Outs :
        (Entered(o) /\ PositiveRawMaterial(inp)) =>
            /\ o.weight_kg = ClosedFormWeight(inp)
            /\ o.material_cost = Mul(ClosedFormWeight(inp), inp.cost_per_kg)

\* C6 (amended): for positive D_raw, L_raw and density, the weight_kg every
\* script computes by its chained steps is within rounding error of the closed
\* form evaluated in floats, and material_cost is the computed weight_kg times
\* cost_per_kg.  The chain rounds six times and the closed form five times,
\* each time by at most half a unit in the last place: 12 units bound the
\* difference.
C6_ClosedFormWithinRounding ==
    \A o \in Outs :
        (Entered(o) /\ PositiveRawMaterial(inp)) =>
            /\ WithinUlps(o.weight_kg, ClosedFormWeight(inp), 12)
            /\ o.material_cost = Mul(o.weight_kg, inp.cost_per_kg)

\* A calculation whose weight differs from the closed form in the last place.
C6_Witness ==
    /\ PositiveRawMaterial(inp)
    /\ \A o \in Outs : Completed(o) /\ Gt0(o.material_cost)
    /\ out2.weight_kg # ClosedFormWeight(inp)

AllNonNegative(i) ==
    \A f \in RawMaterialFields \cup MachiningFields : Ge0(i[f])

\* C8: when all nine inputs are non-negative, weight_kg and material_cost are
\* non-negative in every run that enters the calculation block, the
\* D_final <= 0 branch included.
C8_NonNegativeMaterial ==
    \A o \in Outs :
        (Entered(o) /\ AllNonNegative(inp)) =>
            Ge0(o.weight_kg) /\ Ge0(o.material_cost)

C8_Witness ==
    /\ AllNonNegative(inp)
    /\ ~Gt0(inp.D_final)
    /\ Completed(out2)
    /\ Gt0(out2.weight_kg)
    /\ Gt0(out2.material_cost)

\* C9: app2.py's flag is False after the first run; it turns True only in a
\* run started by the button; once True, every later run with D_final > 0
\* leaves it True and recalculates and shows the results without a click; it
\* turns False only in a run with D_final <= 0.  app1.py calculates exactly
\* in the runs started by the button.
C9_FlagLifecycle ==
    /\ run_calculation = app2_InitialFlag
    /\ [][(~run_calculation /\ run_calculation') => button']_vars
    /\ [][(run_calculation /\ Gt0(inp'.D_final)) =>
             (/\ run_calculation'
              /\ Completed(out2')
              /\ "results" \in out2'.shown)]_vars
    /\ [][(run_calculation /\ ~run_calculation') => ~Gt0(inp'.D_final)]_vars
    /\ [](Entered(out1) <=> button)

C9_Witness ==
    /\ run_calculation
    /\ ~button
    /\ Completed(out2)
    /\ "results" \in out2.shown
    /\ ~Entered(out1)

DegenerateRun2 == Completed(out2) /\ ~Gt0(inp.D_final)

\* C10 (as claimed): a run of app2.py with D_final <= 0 and the flag True
\* shows the error and displays the material-cost-only result and offers it
\* as an export row.
C10_DegenerateShown ==
    DegenerateRun2 =>
        /\ "error" \in out2.shown
        /\ "results" \in out2.shown
        /\ out2.rows = {Row(inp, out2.material_cost, Zero, out2.material_cost)}

\* C10 (amended): such a run shows the error, assigns machining_cost = 0 and
\* total_cost = material_cost, resets the flag, and shows the initial-state
\* panel instead of the results: nothing is displayed or offered for export.
C10_DegenerateHidden ==
    DegenerateRun2 =>
        /\ out2.shown = {"error", "info"}
        /\ out2.rows = {}
        /\ PyEq(out2.machining_cost, Zero)
        /\ PyEq(out2.total_cost, out2.material_cost)
        /\ ~run_calculation

C10_Witness ==
    /\ DegenerateRun2
    /\ button
    /\ "error" \in out2.shown
    /\ Gt0(out2.material_cost)

====
